---- MODULE Spec2Model ----
(***************************************************************************)
(* Type generation for react-router (packages/react-router-dev/typegen/    *)
(* index.ts): the one-shot driver `run`, the watch orchestrator `watch`,   *)
(* the output writer `writeAll` and the global param map generator         *)
(* `register`.                                                             *)
(*                                                                         *)
(* JavaScript strings are modelled as sequences of symbols: the symbols    *)
(* "/", ":", "?" and "*" are the characters the path grammar looks at, any *)
(* other symbol ("posts", "slug", ...) stands for a run of word            *)
(* characters.  Route identifiers are sequences of their "/"-delimited     *)
(* components.  An object used as an ordered map (ctx.config.routes, the   *)
(* result of Params.parse, the Set of full paths) is a sequence in         *)
(* insertion order.                                                        *)
(***************************************************************************)
EXTENDS Integers, Sequences, FiniteSets, TLC

VARIABLES
    mode,        \* "run" or "watch": which entry point was called
    initial,     \* the Result configLoader.getConfig() yields at startup
    phase,       \* position of the entry point (run / watch)
    config,      \* ctx.config, the in-memory snapshot
    subscribed,  \* the change handler is registered with the config loader
    configLoader,\* the config loader of ctx: "none", "open" or "closed"
    dir,         \* the output directory exists on disk
    files,       \* the files of the output directory: path -> content
    writtenBy,   \* path -> number of the writeAll pass that wrote the file
    pass,        \* the writeAll call on the stack, if any
    passes,      \* number of writeAll passes started so far
    microtasks,  \* continuations of suspended change handlers, in order
    log,         \* calls made on the logger, in order
    rejected,    \* errors of change-handler promises that rejected
    events,      \* the change notifications delivered so far, in order
    fsErrors,    \* number of filesystem errors raised so far
    lastOutput,  \* the snapshot and the disk at the last completed pass
    last         \* the step taken last (what the claims speak about)

vars == <<mode, initial, phase, config, subscribed, configLoader, dir, files,
          writtenBy, pass, passes, microtasks, log, rejected, events,
          fsErrors, lastOutput, last>>

-----------------------------------------------------------------------------
(* Bounds of the model *)

\* change notifications delivered in one behaviour
MaxEvents == 2
\* filesystem errors raised in one behaviour
MaxFsErrors == 1
\* routes besides the root in the trees of the one-shot specification
MaxExtraRoutes == 2

-----------------------------------------------------------------------------
(* Strings and route trees *)

RootId == <<"root">>

\* String.prototype.split("/")
RECURSIVE SplitAt(_, _, _)
SplitAt(s, cur, acc) ==
    IF s = <<>> THEN Append(acc, cur)
    ELSE IF Head(s) = "/" THEN SplitAt(Tail(s), <<>>, Append(acc, cur))
    ELSE SplitAt(Tail(s), Append(cur, Head(s)), acc)

Split(s) == SplitAt(s, <<>>, <<>>)

\* Array.prototype.join("/")
RECURSIVE Join(_)
Join(segs) ==
    IF segs = <<>> THEN <<>>
    ELSE IF Len(segs) = 1 THEN segs[1]
    ELSE segs[1] \o <<"/">> \o Join(Tail(segs))

\* a run of "/" becomes one "/"
RECURSIVE Normalize(_)
Normalize(s) ==
    IF Len(s) < 2 THEN s
    ELSE IF s[1] = "/" /\ s[2] = "/" THEN Normalize(Tail(s))
    ELSE <<s[1]>> \o Normalize(Tail(s))

\* !route.path : the path is undefined or the empty string
NoPath(route) == ~route.hasPath \/ route.path = <<>>

HasRoute(routes, id) == \E i \in 1..Len(routes) : routes[i].id = id

RouteById(routes, id) ==
    routes[CHOOSE i \in 1..Len(routes) : routes[i].id = id]

ParentId(id) == IF Len(id) > 1 THEN SubSeq(id, 1, Len(id) - 1) ELSE RootId

\* the parent chain of a route can be walked up to the root
RECURSIVE LineageOk(_, _)
LineageOk(routes, route) ==
    \/ route.id = RootId
    \/ /\ HasRoute(routes, ParentId(route.id))
       /\ LineageOk(routes, RouteById(routes, ParentId(route.id)))

\* Route.lineage: the chain of routes from the root to `route`
RECURSIVE lineage(_, _)
lineage(routes, route) ==
    IF route.id = RootId THEN <<route>>
    ELSE Append(lineage(routes, RouteById(routes, ParentId(route.id))), route)

\* Route.fullpath: the "/"-join of the path segments of a lineage
fullpath(lin) ==
    Normalize(Join(SelectSeq([i \in 1..Len(lin) |-> lin[i].path],
                             LAMBDA p : p # <<>>)))

-----------------------------------------------------------------------------
(* Params.parse *)

ParamIndex(result, name) ==
    {i \in 1..Len(result) : result[i].param = name}

\* result[name] = isRequired on an object: a new key goes last, an existing
\* key keeps its place and takes the new value
SetParam(result, name, isRequired) ==
    IF ParamIndex(result, name) = {}
    THEN Append(result, [param |-> name, isRequired |-> isRequired])
    ELSE [i \in 1..Len(result) |->
            IF result[i].param = name
            THEN [param |-> name, isRequired |-> isRequired]
            ELSE result[i]]

ParseSegment(result, seg) ==
    IF seg = <<>> THEN result
    ELSE IF seg = <<"*">> THEN SetParam(result, <<"*">>, TRUE)
    ELSE IF Head(seg) = ":"
    THEN LET rest == Tail(seg)
             optional == rest # <<>> /\ rest[Len(rest)] = "?"
             name == IF optional THEN SubSeq(rest, 1, Len(rest) - 1) ELSE rest
         IN  IF name = <<>> THEN result ELSE SetParam(result, name, ~optional)
    ELSE result

RECURSIVE ParseSegments(_, _)
ParseSegments(result, segs) ==
    IF segs = <<>> THEN result
    ELSE ParseSegments(ParseSegment(result, Head(segs)), Tail(segs))

parse(path) == ParseSegments(<<>>, Split(path))

-----------------------------------------------------------------------------
(* The generators *)

\* a filter that keeps only the routes with a path
IncludedPathOnly(route) == ~NoPath(route)

\* register keeps a route unless `route.id !== "root" && !route.path`
Included(route) == ~(route.id # RootId /\ NoPath(route))

\* Array.prototype.push in place of Set.prototype.add
SetAddPush(set, x) == Append(set, x)

\* an add that moves a known element to the end
SetAddMoves(set, x) == Append(SelectSeq(set, LAMBDA y : y # x), x)

\* Set.prototype.add: a new element goes last, a known one changes nothing
SetAdd(set, x) ==
    IF \E i \in 1..Len(set) : set[i] = x THEN set ELSE Append(set, x)

RECURSIVE CollectFullpaths(_, _, _)
CollectFullpaths(routes, i, set) ==
    IF i > Len(routes) THEN set
    ELSE IF ~Included(routes[i]) THEN CollectFullpaths(routes, i + 1, set)
    ELSE CollectFullpaths(routes, i + 1,
             SetAdd(set, fullpath(lineage(routes, routes[i]))))

\* the Set `fullpaths` register builds, in insertion order
fullpaths(cfg) == CollectFullpaths(cfg.routes, 1, <<>>)

\* property signatures that take the flag of the parameter as the optional mark
ParamPropertiesUnnegated(params) ==
    [j \in 1..Len(params) |->
        [name |-> params[j].param, optional |-> params[j].isRequired]]

\* one property signature per parameter; optional = !isRequired
ParamProperties(params) ==
    [j \in 1..Len(params) |->
        [name |-> params[j].param, optional |-> ~params[j].isRequired]]

\* the text of +register.ts: the Future augmentation and the Params alias
register(cfg) ==
    [kind |-> "register",
     unstable_middleware |-> cfg.future.unstable_middleware,
     Params |-> [k \in 1..Len(fullpaths(cfg)) |->
                    [key |-> fullpaths(cfg)[k],
                     props |-> ParamProperties(parse(fullpaths(cfg)[k]))]]]

\* the text of one route's declaration file
generate(cfg, route) ==
    [kind |-> "route",
     unstable_middleware |->
        IF route.id = RootId THEN cfg.future.unstable_middleware ELSE FALSE,
     Params |-> <<[key |-> fullpath(lineage(cfg.routes, route)),
                   props |-> ParamProperties(
                       parse(fullpath(lineage(cfg.routes, route))))]>>]

\* the fixed text of +virtual.d.ts
virtual == [kind |-> "virtual", unstable_middleware |-> FALSE, Params |-> <<>>]

\* getTypesPath: the declaration file of a route, inside the output directory
getTypesPath(route) == <<"+types">> \o route.id

registerPath == <<"+register.ts">>

virtualPath == <<"+virtual.d.ts">>

\* the output set of a snapshot: what a complete writeAll pass leaves on disk
OutputPaths(cfg) ==
    {getTypesPath(cfg.routes[i]) : i \in 1..Len(cfg.routes)}
        \cup {registerPath, virtualPath}

OutputSet(cfg) ==
    [p \in OutputPaths(cfg) |->
        IF p = registerPath THEN register(cfg)
        ELSE IF p = virtualPath THEN virtual
        ELSE generate(cfg, RouteById(cfg.routes, Tail(p)))]

-----------------------------------------------------------------------------
(* Configuration snapshots and reload results *)

Route(id, path) == [id |-> id, hasPath |-> TRUE, path |-> path]

Pathless(id) == [id |-> id, hasPath |-> FALSE, path |-> <<>>]

Config(routes, middleware) ==
    [routes |-> routes, future |-> [unstable_middleware |-> middleware]]

\* ctx.config before createContext has set it
NoConfig == Config(<<>>, FALSE)

\* root and one child "posts/:slug"
SnapPosts ==
    Config(<<Pathless(RootId),
             Route(<<"posts">>, <<"posts", "/", ":", "slug">>)>>, FALSE)

\* a pathless layout route, and two routes with the full path "a/:id?"
SnapLayout ==
    Config(<<Pathless(RootId),
             Pathless(<<"lay">>),
             Route(<<"lay", "u">>, <<"a", "/", ":", "id", "?">>),
             Route(<<"w">>, <<"a", "/", ":", "id", "?">>)>>, TRUE)

\* the root alone
SnapRoot == Config(<<Pathless(RootId)>>, FALSE)

Snapshots == {SnapPosts, SnapLayout, SnapRoot}

\* the route trees of the one-shot driver: the root and up to MaxExtraRoutes
\* other routes, in any order, every route with its parent in the tree
TreeIds == {<<"a">>, <<"a", "b">>, <<"c">>}

TreePaths == {<<>>, <<"x">>, <<":", "id">>, <<"x", "/", ":", "id">>}

TreeRoutes ==
    {Pathless(RootId), Route(RootId, <<"r">>)}
        \cup {Pathless(id) : id \in TreeIds}
        \cup {Route(id, path) : id \in TreeIds, path \in TreePaths}

WellFormed(routes) ==
    /\ HasRoute(routes, RootId)
    /\ \A i, j \in 1..Len(routes) : routes[i].id = routes[j].id => i = j
    /\ \A i \in 1..Len(routes) : LineageOk(routes, routes[i])

Trees ==
    {Config(routes, FALSE) :
        routes \in {r \in UNION {[1..n -> TreeRoutes] :
                                    n \in 1..(1 + MaxExtraRoutes)} :
                        WellFormed(r)}}

\* full paths that name the parameter id in two segments, with different
\* optional markers
RepeatPaths ==
    {<<"/", "a", "/", ":", "id", "?", "/", "b", "/", ":", "id">>,
     <<"/", "a", "/", ":", "id", "/", "b", "/", ":", "id", "?">>}

RepeatTrees ==
    {Config(<<Pathless(RootId), Route(<<"c">>, path)>>, FALSE) :
        path \in RepeatPaths}

Ok(value) == [ok |-> TRUE, value |-> value, error |-> "none"]

Err(error) == [ok |-> FALSE, value |-> NoConfig, error |-> error]

Results == {Ok(v) : v \in Snapshots} \cup {Err("config error")}

\* what the initial load may yield
InitialResults(m) ==
    IF m = "run"
    THEN {Ok(v) : v \in Trees \cup RepeatTrees} \cup {Err("config error")}
    ELSE Results

-----------------------------------------------------------------------------
(* The disk *)

NoFiles == [p \in {} |-> virtual]

WriteFile(f, p, content) ==
    [q \in DOMAIN f \cup {p} |-> IF q = p THEN content ELSE f[q]]

Restrict(f, S) == [q \in S |-> f[q]]

\* what an earlier run of another configuration left behind
StaleFiles ==
    [p \in {getTypesPath(Route(<<"gone">>, <<"gone">>)), registerPath} |->
        IF p = registerPath THEN register(SnapLayout)
        ELSE generate(SnapLayout, Pathless(RootId))]

Idle == [pc |-> "idle", owner |-> "none", i |-> 0, n |-> 0, ev |-> 0]

NoOutput == [valid |-> FALSE, cfg |-> NoConfig, dir |-> FALSE, files |-> NoFiles]

Step(op) ==
    [op |-> op, result |-> Err("none"), configChanged |-> FALSE,
     routeConfigChanged |-> FALSE, ev |-> 0]

Event(result, configChanged, routeConfigChanged, ev) ==
    [op |-> "onChange", result |-> result, configChanged |-> configChanged,
     routeConfigChanged |-> routeConfigChanged, ev |-> ev]

Info(msg, ev) == [level |-> "info", msg |-> msg, ev |-> ev]

Error(msg, ev) == [level |-> "error", msg |-> msg, ev |-> ev]

Nobody == [p \in {} |-> 0]

disk == <<dir, files, writtenBy>>

loader == <<mode, initial, subscribed, configLoader, events>>

-----------------------------------------------------------------------------
(* writeAll.  Its body makes synchronous filesystem calls only, so from the *)
(* call to the return (or the throw) no other code of the process runs:    *)
(* every other action waits for the pass to leave the stack.               *)

\* a writeAll whose filesystem calls are awaited: other code runs meanwhile
RunningAsync == FALSE

Running == pass.pc # "idle"

\* writeAll(ctx) is called: the next thing to run is its rmSync
CallWriteAll(owner, ev) ==
    /\ pass' = [pc |-> "rm", owner |-> owner, i |-> 1, n |-> passes + 1,
                ev |-> ev]
    /\ passes' = passes + 1

\* the body moves on to its next filesystem call
Advance(pc, i) ==
    /\ pass' = [pass EXCEPT !.pc = pc, !.i = i]
    /\ UNCHANGED <<phase, rejected, microtasks, lastOutput, fsErrors>>

\* a writeAll that catches the error of a filesystem call and returns
ThrowSwallowed ==
    /\ pass' = Idle
    /\ fsErrors' = fsErrors + 1
    /\ IF pass.owner = "main"
       THEN phase' = "written" /\ UNCHANGED microtasks
       ELSE microtasks' = Append(microtasks, pass.ev) /\ UNCHANGED phase
    /\ UNCHANGED <<rejected, lastOutput>>

\* a filesystem call throws: writeAll catches nothing, and neither do its
\* callers, so run/watch reject, or the change handler's promise rejects
Throw ==
    /\ pass' = Idle
    /\ fsErrors' = fsErrors + 1
    /\ IF pass.owner = "main"
       THEN phase' = "writeFailed" /\ UNCHANGED rejected
       ELSE rejected' = Append(rejected, pass.ev) /\ UNCHANGED phase
    /\ UNCHANGED <<microtasks, lastOutput>>

\* writeAll returns: the caller awaits the resolved promise, so a change
\* handler continues in a later microtask
Return ==
    /\ pass' = Idle
    /\ lastOutput' = [valid |-> TRUE, cfg |-> config, dir |-> dir',
                      files |-> files']
    /\ IF pass.owner = "main"
       THEN phase' = "written" /\ UNCHANGED microtasks
       ELSE microtasks' = Append(microtasks, pass.ev) /\ UNCHANGED phase
    /\ UNCHANGED <<rejected, fsErrors>>

\* a writeAll that does not clear the output directory
RemoveDirKeeps == UNCHANGED disk

\* fs.rmSync(typegenDir, { recursive: true, force: true }) succeeds
RemoveDir ==
    /\ dir' = FALSE
    /\ files' = NoFiles
    /\ writtenBy' = Nobody

\* fs.rmSync throws part of the way through the directory
RemoveDirFails ==
    /\ \E S \in SUBSET DOMAIN files :
          /\ files' = Restrict(files, S)
          /\ writtenBy' = Restrict(writtenBy, S)
    /\ UNCHANGED dir

rmSync ==
    /\ pass.pc = "rm"
    /\ \/ /\ RemoveDir
          /\ Advance(IF config.routes = <<>> THEN "register" ELSE "route", 1)
       \/ /\ fsErrors < MaxFsErrors
          /\ RemoveDirFails
          /\ Throw
    /\ last' = Step("rmSync")
    /\ UNCHANGED <<loader, config, passes, log>>

\* a forEach body that also writes the register file on every turn
WriteTypesAndRegister(route) ==
    /\ dir' = TRUE
    /\ files' = WriteFile(WriteFile(files, getTypesPath(route),
                                    generate(config, route)),
                          registerPath, register(config))
    /\ writtenBy' = WriteFile(WriteFile(writtenBy, getTypesPath(route),
                                        pass.n),
                              registerPath, pass.n)

\* fs.mkdirSync(dirname, { recursive: true }); fs.writeFileSync(path, content)
WriteTypes(route) ==
    /\ dir' = TRUE
    /\ files' = WriteFile(files, getTypesPath(route), generate(config, route))
    /\ writtenBy' = WriteFile(writtenBy, getTypesPath(route), pass.n)

\* the body of the forEach over Object.values(ctx.config.routes)
writeRoute ==
    /\ pass.pc = "route"
    /\ \/ /\ WriteTypes(config.routes[pass.i])
          /\ Advance(IF pass.i < Len(config.routes) THEN "route"
                     ELSE "register", pass.i + 1)
       \/ /\ fsErrors < MaxFsErrors
          /\ dir' \in {dir, TRUE}     \* mkdirSync threw, or writeFileSync did
          /\ UNCHANGED <<files, writtenBy>>
          /\ Throw
    /\ last' = Step("writeRoute")
    /\ UNCHANGED <<loader, config, passes, log>>

\* a register file that carries a stamp of the pass that wrote it
WriteRegisterStamped ==
    /\ files' = WriteFile(files, registerPath,
                    [register(config) EXCEPT
                        !.Params = @ \o <<[key |-> [k \in 1..pass.n |-> "#"],
                                          props |-> <<>>]>>])
    /\ writtenBy' = WriteFile(writtenBy, registerPath, pass.n)
    /\ UNCHANGED dir

\* fs.writeFileSync(registerPath, register(ctx))
WriteRegister ==
    /\ files' = WriteFile(files, registerPath, register(config))
    /\ writtenBy' = WriteFile(writtenBy, registerPath, pass.n)
    /\ UNCHANGED dir

writeRegister ==
    /\ pass.pc = "register"
    /\ IF dir
       THEN \/ WriteRegister /\ Advance("virtual", 1)
            \/ fsErrors < MaxFsErrors /\ UNCHANGED disk /\ Throw
       ELSE UNCHANGED disk /\ Throw     \* ENOENT: no directory to write into
    /\ last' = Step("writeRegister")
    /\ UNCHANGED <<loader, config, passes, log>>

\* fs.writeFileSync(virtualPath, virtual)
WriteVirtual ==
    /\ files' = WriteFile(files, virtualPath, virtual)
    /\ writtenBy' = WriteFile(writtenBy, virtualPath, pass.n)
    /\ UNCHANGED dir

writeVirtual ==
    /\ pass.pc = "virtual"
    /\ \/ WriteVirtual /\ Return
       \/ fsErrors < MaxFsErrors /\ UNCHANGED disk /\ Throw
    /\ last' = IF fsErrors' = fsErrors
               THEN [Step("writeAll returned") EXCEPT !.ev = pass.ev]
               ELSE Step("writeVirtual")
    /\ UNCHANGED <<loader, config, passes, log>>

writeAll == rmSync \/ writeRoute \/ writeRegister \/ writeVirtual

-----------------------------------------------------------------------------
(* run and watch *)

\* a createContext that goes on with whatever the load returned
createContextUnchecked ==
    /\ phase = "start"
    /\ config' = initial.value
    /\ phase' = "context"
    /\ configLoader' = "open"
    /\ last' = Step("createContext")
    /\ UNCHANGED <<mode, initial, subscribed, events, disk, pass, passes,
                   microtasks, log, rejected, fsErrors, lastOutput>>

\* createContext: create the config loader, load; a failed load throws
createContext ==
    /\ phase = "start"
    /\ IF initial.ok
       THEN config' = initial.value /\ phase' = "context"
       ELSE phase' = "loadFailed" /\ UNCHANGED config
    /\ configLoader' = "open"
    /\ last' = Step("createContext")
    /\ UNCHANGED <<mode, initial, subscribed, events, disk, pass, passes, microtasks, log, rejected,
                   fsErrors, lastOutput>>

\* a watch that subscribes its handler before the initial writeAll
initialWriteAllSubscribed ==
    /\ phase = "context"
    /\ CallWriteAll("main", 0)
    /\ phase' = "writing"
    /\ subscribed' = (mode = "watch")
    /\ last' = Step("initialWriteAll")
    /\ UNCHANGED <<mode, initial, configLoader, events, config, disk,
                   microtasks, log, rejected, fsErrors, lastOutput>>

\* `await writeAll(ctx)` of run and of watch
initialWriteAll ==
    /\ phase = "context"
    /\ CallWriteAll("main", 0)
    /\ phase' = "writing"
    /\ last' = Step("initialWriteAll")
    /\ UNCHANGED <<loader, config, disk, microtasks, log, rejected,
                   fsErrors, lastOutput>>

\* run returns
run ==
    /\ mode = "run"
    /\ phase = "written"
    /\ phase' = "done"
    /\ last' = Step("run returned")
    /\ UNCHANGED <<loader, config, disk, pass, passes, microtasks, log,
                   rejected, fsErrors, lastOutput>>

\* watch logs "generated types", subscribes the handler, returns the Watcher
watch ==
    /\ mode = "watch"
    /\ phase = "written"
    /\ log' = Append(log, Info("generated types", 0))
    /\ subscribed' = TRUE
    /\ phase' = "watching"
    /\ last' = Step("watch returned")
    /\ UNCHANGED <<mode, initial, configLoader, events, config, disk, pass,
                   passes, microtasks, rejected, fsErrors, lastOutput>>

\* the config loader calls its change handlers while it is open
Notifies == subscribed /\ configLoader = "open"

\* a handler that clears the output when the reload failed
HandleFailedClears(result, ev) ==
    /\ log' = Append(log, Error(result.error, ev))
    /\ RemoveDir
    /\ UNCHANGED <<config, pass, passes>>

\* the handler on a failed reload: log the error and return
HandleFailed(result, ev) ==
    /\ log' = Append(log, Error(result.error, ev))
    /\ UNCHANGED <<config, disk, pass, passes>>

\* a handler that regenerates before it replaces the snapshot
HandleOkStale(result, configChanged, routeConfigChanged, ev) ==
    /\ IF configChanged \/ routeConfigChanged
       THEN CallWriteAll("handler", ev) /\ UNCHANGED config
       ELSE config' = result.value /\ UNCHANGED <<pass, passes>>
    /\ UNCHANGED <<disk, log>>

\* a handler that regenerates on every successful reload
HandleOkAlways(result, configChanged, routeConfigChanged, ev) ==
    /\ config' = result.value
    /\ CallWriteAll("handler", ev)
    /\ UNCHANGED <<disk, log>>

\* a handler that starts no pass while an earlier handler has not finished
HandleOkCoalesces(result, configChanged, routeConfigChanged, ev) ==
    /\ config' = result.value
    /\ IF (configChanged \/ routeConfigChanged) /\ microtasks = <<>>
       THEN CallWriteAll("handler", ev)
       ELSE UNCHANGED <<pass, passes>>
    /\ UNCHANGED <<disk, log>>

\* a handler that keeps the snapshot of a reload that changed nothing
HandleOkKeeps(result, configChanged, routeConfigChanged, ev) ==
    /\ IF configChanged \/ routeConfigChanged
       THEN config' = result.value /\ CallWriteAll("handler", ev)
       ELSE UNCHANGED <<config, pass, passes>>
    /\ UNCHANGED <<disk, log>>

\* the handler on a successful reload: replace the snapshot, and regenerate
\* when configChanged || routeConfigChanged
HandleOk(result, configChanged, routeConfigChanged, ev) ==
    /\ config' = result.value
    /\ IF configChanged \/ routeConfigChanged
       THEN CallWriteAll("handler", ev)
       ELSE UNCHANGED <<pass, passes>>
    /\ UNCHANGED <<disk, log>>

\* the handler runs up to its first suspension
onChange ==
    /\ Notifies
    /\ ~Running
    /\ Len(events) < MaxEvents
    /\ \E result \in Results, configChanged \in BOOLEAN,
          routeConfigChanged \in BOOLEAN :
          /\ IF ~result.ok
             THEN HandleFailed(result, Len(events) + 1)
             ELSE HandleOk(result, configChanged, routeConfigChanged,
                           Len(events) + 1)
          /\ last' = Event(result, configChanged, routeConfigChanged,
                           Len(events) + 1)
          /\ events' = Append(events,
                 [result |-> result,
                  regenerate |-> result.ok /\ (configChanged \/ routeConfigChanged)])
    /\ UNCHANGED <<mode, initial, subscribed, configLoader, phase, microtasks,
                   rejected, fsErrors, lastOutput>>

\* the handler resumes after `await writeAll(ctx)` and logs success
resume ==
    /\ ~Running
    /\ microtasks # <<>>
    /\ log' = Append(log, Info("regenerated types", Head(microtasks)))
    /\ microtasks' = Tail(microtasks)
    /\ last' = [Step("resume") EXCEPT !.ev = Head(microtasks)]
    /\ UNCHANGED <<loader, phase, config, disk, pass, passes, rejected,
                   fsErrors, lastOutput>>

\* a close that also removes the generated output
closeCleans ==
    /\ phase = "watching"
    /\ ~Running
    /\ configLoader = "open"
    /\ configLoader' = "closed"
    /\ RemoveDir
    /\ last' = Step("close")
    /\ UNCHANGED <<mode, initial, subscribed, events, phase, config, pass,
                   passes, microtasks, log, rejected, fsErrors, lastOutput>>

\* a close that cancels the regeneration in flight
closeAborts ==
    /\ phase = "watching"
    /\ configLoader = "open"
    /\ configLoader' = "closed"
    /\ pass' = Idle
    /\ microtasks' = <<>>
    /\ last' = Step("close")
    /\ UNCHANGED <<mode, initial, subscribed, events, phase, config, disk,
                   passes, log, rejected, fsErrors, lastOutput>>

\* Watcher.close: ctx.configLoader.close()
close ==
    /\ phase = "watching"
    /\ ~Running
    /\ configLoader = "open"
    /\ configLoader' = "closed"
    /\ last' = Step("close")
    /\ UNCHANGED <<mode, initial, subscribed, events, phase, config, disk,
                   pass, passes, microtasks, log, rejected, fsErrors,
                   lastOutput>>

-----------------------------------------------------------------------------
(* The specification: run or watch, on a disk that a previous run may have *)
(* written, with any sequence of change notifications                      *)

InitialDisks == {<<FALSE, NoFiles>>, <<TRUE, NoFiles>>, <<TRUE, StaleFiles>>}

Init ==
    /\ mode \in {"run", "watch"}
    /\ initial \in InitialResults(mode)
    /\ phase = "start"
    /\ config = NoConfig
    /\ subscribed = FALSE
    /\ configLoader = "none"
    /\ \E d \in InitialDisks : dir = d[1] /\ files = d[2]
    /\ writtenBy = [p \in DOMAIN files |-> 0]
    /\ pass = Idle
    /\ passes = 0
    /\ microtasks = <<>>
    /\ log = <<>>
    /\ rejected = <<>>
    /\ events = <<>>
    /\ fsErrors = 0
    /\ lastOutput = NoOutput
    /\ last = Step("init")

Next ==
    \/ createContext
    \/ initialWriteAll
    \/ writeAll
    \/ run
    \/ watch
    \/ onChange
    \/ resume
    \/ close

Spec == Init /\ [][Next]_vars

-----------------------------------------------------------------------------
(* Properties *)

Regenerated(ev) ==
    {k \in 1..Len(log) : log[k] = Info("regenerated types", ev)}

\* C1: a change notification with a failed reload result, whatever its
\* configChanged and routeConfigChanged, logs the error and leaves ctx.config
\* and the output directory (file set and contents) as they were: nothing is
\* deleted, nothing is written, no writeAll pass starts.
C1_FailedReloadKeepsState ==
    [][(last'.op = "onChange" /\ ~last'.result.ok)
        => /\ log' = Append(log, Error(last'.result.error, last'.ev))
           /\ config' = config
           /\ dir' = dir
           /\ files' = files
           /\ pass' = pass
           /\ passes' = passes
           /\ microtasks' = microtasks]_vars

\* a failed reload with both flags set has just been handled, with a
\* complete output set on disk
C1_Witness ==
    /\ last.op = "onChange"
    /\ ~last.result.ok
    /\ last.configChanged /\ last.routeConfigChanged
    /\ config \in Snapshots
    /\ files = OutputSet(config)
    /\ log[Len(log)] = Error("config error", last.ev)

\* C2: a change notification with an ok result and both configChanged and
\* routeConfigChanged false deletes nothing and writes nothing (no writeAll
\* pass starts), and no "regenerated types" message is ever logged for it.
C2_UnchangedReloadNoIO ==
    /\ [][(last'.op = "onChange" /\ last'.result.ok
            /\ ~last'.configChanged /\ ~last'.routeConfigChanged)
           => /\ dir' = dir
              /\ files' = files
              /\ pass' = pass
              /\ passes' = passes
              /\ microtasks' = microtasks
              /\ log' = log]_vars
    /\ [](\A ev \in 1..Len(events) :
            Regenerated(ev) # {} => events[ev].regenerate)

\* such a notification has just replaced the snapshot by a different one,
\* and the disk still holds the output of the last pass
C2_Witness ==
    /\ last.op = "onChange"
    /\ last.result.ok
    /\ ~last.configChanged /\ ~last.routeConfigChanged
    /\ lastOutput.valid
    /\ config # lastOutput.cfg
    /\ files = lastOutput.files
    /\ files # OutputSet(config)

\* the parts of C3 that concern the order of the handler's steps: the
\* snapshot is replaced before the pass is called and before anything is
\* written; the one pass reads that snapshot throughout; success is logged
\* once, when the handler resumes, and never while its pass has not returned
C3_Order ==
    /\ [][(last'.op = "onChange" /\ last'.result.ok
            /\ (last'.configChanged \/ last'.routeConfigChanged))
           => /\ config' = last'.result.value
              /\ pass' = [pc |-> "rm", owner |-> "handler", i |-> 1,
                          n |-> passes + 1, ev |-> last'.ev]
              /\ passes' = passes + 1
              /\ dir' = dir
              /\ files' = files
              /\ log' = log]_vars
    /\ []((Running /\ pass.owner = "handler")
            => /\ events[pass.ev].regenerate
               /\ config = events[pass.ev].result.value)
    /\ [](\A ev \in 1..Len(events) :
            /\ Cardinality(Regenerated(ev)) <= 1
            /\ Regenerated(ev) # {}
                 => /\ ~(Running /\ pass.ev = ev)
                    /\ \A k \in 1..Len(microtasks) : microtasks[k] # ev
                    /\ \A k \in 1..Len(rejected) : rejected[k] # ev)
    /\ [](last.op = "resume" => Cardinality(Regenerated(last.ev)) = 1)

\* C3 as stated: ..., and when the handler completes (it has logged success)
\* the on-disk output is the output set of the snapshot its notification
\* carried.
C3_Original ==
    /\ C3_Order
    /\ [](last.op = "resume"
            => dir /\ files = OutputSet(events[last.ev].result.value))

\* C3, amended: for a change notification with an ok result and configChanged
\* or routeConfigChanged true, the handler first replaces the in-memory
\* snapshot, then runs one writeAll pass against that snapshot, and only
\* after the pass has returned logs success, exactly once; when the pass
\* returns, the on-disk output is the output set of the new snapshot.
C3_RegenerateInOrder ==
    /\ C3_Order
    /\ []((last.op = "writeAll returned" /\ last.ev # 0)
            => dir /\ files = OutputSet(events[last.ev].result.value))

\* a handler has completed: it replaced the snapshot by a different one, its
\* pass wrote the new output set, and it has logged success
C3_Witness ==
    /\ last.op = "resume"
    /\ Len(events) = 1
    /\ events[1].result.value # initial.value
    /\ config = events[1].result.value
    /\ files = OutputSet(config)
    /\ log = <<Info("generated types", 0), Info("regenerated types", 1)>>

C5_NoWritesAfterClose ==
    [][(configLoader = "closed" \/ configLoader' = "closed")
        => /\ dir' = dir
           /\ files' = files
           /\ passes' = passes
           /\ pass'.pc = "idle"]_vars

\* after close, a handler that was suspended at its await has resumed, and
\* the output written before close is still there
C5_Witness ==
    /\ configLoader = "closed"
    /\ last.op = "resume"
    /\ lastOutput.valid
    /\ files = lastOutput.files
    /\ files # NoFiles

\* C6: when a writeAll pass returns, the output directory holds one
\* declaration file per route of the snapshot the pass used, +register.ts and
\* +virtual.d.ts, all written by this pass, and nothing else, whatever the
\* directory held (or whether it existed) before the pass.
C6_OutputIsExactlyTheSnapshot ==
    last.op = "writeAll returned"
        => /\ dir
           /\ DOMAIN files = OutputPaths(config)
           /\ Cardinality(DOMAIN files) = Len(config.routes) + 2
           /\ \A p \in DOMAIN files : writtenBy[p] = passes

\* the pass for a snapshot without the route "posts" has returned, after a
\* pass for a snapshot that had it
C6_Witness ==
    /\ last.op = "writeAll returned"
    /\ passes = 2
    /\ initial.value = SnapPosts
    /\ config = SnapRoot
    /\ DOMAIN files = OutputPaths(SnapRoot)

\* C7: a writeAll pass that returns on the snapshot of the last pass that
\* returned leaves the same file set with the same contents as that pass
\* did, whatever happened to the directory in between.
C7_WriteAllIdempotent ==
    [][(last'.op = "writeAll returned" /\ lastOutput.valid
         /\ lastOutput.cfg = config)
        => /\ dir' = lastOutput.dir
           /\ files' = lastOutput.files]_vars

\* a second pass on the snapshot of the first has returned
C7_Witness ==
    /\ last.op = "writeAll returned"
    /\ passes = 2
    /\ Len(events) = 1
    /\ config = initial.value
    /\ config = SnapLayout
    /\ files = OutputSet(config)

\* the output directory holds files written by two different passes
Mixed == \E p, q \in DOMAIN files : writtenBy[p] # writtenBy[q]

\* a notification is being handled while an earlier handler, suspended at its
\* await, has not completed
Overlap == pass.owner = "handler" /\ microtasks # <<>>

\* C8 as stated: when a second change notification arrives while the handler
\* of an earlier one is still in flight, the writes of the two passes
\* interleave, so that once the later pass has written its route files the
\* directory holds files of both passes.
C8_Original ==
    (Overlap /\ pass.pc \in {"register", "virtual"}) => Mixed

\* C8, amended: no change notification is handled while a writeAll pass is in
\* flight, because the pass makes synchronous filesystem calls only and has
\* returned or thrown before its handler suspends; passes run one after the
\* other, also for overlapping handlers, and the output directory never holds
\* files written by two different passes.
C8_PassesDoNotInterleave ==
    /\ [][last'.op = "onChange" => pass.pc = "idle"]_vars
    /\ [](pass.pc # "idle" => pass.n = passes)
    /\ []~Mixed

\* two handlers are in flight at once, for different snapshots, both passes
\* have returned, and every file on disk was written by the later pass
C8_Witness ==
    /\ Len(microtasks) = 2
    /\ Len(events) = 2
    /\ events[1].result.value # events[2].result.value
    /\ last.op = "writeAll returned"
    /\ files = OutputSet(events[2].result.value)
    /\ \A p \in DOMAIN files : writtenBy[p] = 3

\* C9: in watch mode every failure a change notification leads to reaches the
\* logger's error sink: a failed reload result, and also a filesystem error
\* thrown by the regeneration pass of the notification.
C9_ErrorsReachLogger ==
    \A ev \in 1..Len(events) :
        /\ ~events[ev].result.ok
             => \E k \in 1..Len(log) :
                   log[k] = Error(events[ev].result.error, ev)
        /\ (\E j \in 1..Len(rejected) : rejected[j] = ev)
             => \E k \in 1..Len(log) :
                   log[k].level = "error" /\ log[k].ev = ev

\* the routes register takes full paths from
IncludedRoutes(cfg) ==
    {i \in 1..Len(cfg.routes) :
        \/ cfg.routes[i].id = RootId
        \/ cfg.routes[i].hasPath /\ cfg.routes[i].path # <<>>}

IncludedPaths(cfg) ==
    {fullpath(lineage(cfg.routes, cfg.routes[i])) : i \in IncludedRoutes(cfg)}

\* C10: the param map of the register file a pass has just written has one
\* entry per distinct full path of the routes that are the root or have a
\* non-empty path, each keyed once; a route that is not the root and has no
\* path adds no key of its own.
C10_ParamMapKeys ==
    pass.pc = "virtual"
        => LET map == files[registerPath].Params
           IN  /\ {map[k].key : k \in 1..Len(map)} = IncludedPaths(config)
               /\ Len(map) = Cardinality(IncludedPaths(config))

\* a register file has been written for a tree with a pathless route that is
\* not the root and with two routes of the same full path
C10_Witness ==
    /\ pass.pc = "virtual"
    /\ IncludedRoutes(config) # 1..Len(config.routes)
    /\ Cardinality(IncludedPaths(config)) < Cardinality(IncludedRoutes(config))
    /\ Len(files[registerPath].Params) = 2

\* a snapshot of a pathless root and exactly one other route, which has a
\* non-empty path
RootAndOneChild(cfg) ==
    /\ Len(cfg.routes) = 2
    /\ \E i, j \in 1..2 :
          /\ cfg.routes[i].id = RootId
          /\ NoPath(cfg.routes[i])
          /\ cfg.routes[j].id # RootId
          /\ ~NoPath(cfg.routes[j])

TheChild(cfg) == CHOOSE r \in {cfg.routes[1], cfg.routes[2]} : r.id # RootId

Entries(map) == {map[k] : k \in 1..Len(map)}

\* C11 as stated: for a pathless root with exactly one child of pattern p, the
\* param map of the register file has exactly one entry, keyed by p.
C11_Original ==
    (pass.pc = "virtual" /\ RootAndOneChild(config))
        => LET map == files[registerPath].Params
           IN  /\ Len(map) = 1
               /\ map[1].key = TheChild(config).path

\* C11: for a pathless root with exactly one child of pattern p, the param
\* map of the register file has exactly two entries: one keyed by the root's
\* own full path with no parameters, and one keyed by p that lists the
\* parameters of p with their required or optional status.
C11_RootAndChildEntries ==
    (pass.pc = "virtual" /\ RootAndOneChild(config))
        => LET map == files[registerPath].Params
               p == TheChild(config).path
           IN  /\ Len(map) = 2
               /\ Entries(map) =
                     {[key |-> <<>>, props |-> <<>>],
                      [key |-> p, props |-> ParamProperties(parse(p))]}
               /\ p = <<"posts", "/", ":", "slug">>
                     => \E k \in 1..2 :
                           /\ map[k].key = p
                           /\ map[k].props =
                                 <<[name |-> <<"slug">>, optional |-> FALSE]>>

\* the register file of the snapshot with the one route posts/:slug under a
\* pathless root has been written
C11_Witness ==
    /\ pass.pc = "virtual"
    /\ RootAndOneChild(config)
    /\ TheChild(config).path = <<"posts", "/", ":", "slug">>
    /\ Len(files[registerPath].Params) = 2

\* the name a dynamic segment declares, without its optional marker
SegmentName(seg) ==
    IF seg[Len(seg)] = "?" THEN SubSeq(seg, 2, Len(seg) - 1)
    ELSE SubSeq(seg, 2, Len(seg))

\* the positions of the segments of `key` that declare the parameter `name`
Occurrences(key, name) ==
    {i \in 1..Len(Split(key)) :
        LET seg == Split(key)[i]
        IN  seg # <<>> /\ Head(seg) = ":" /\ SegmentName(seg) = name}

LastOccurrence(key, name) ==
    CHOOSE i \in Occurrences(key, name) :
        \A j \in Occurrences(key, name) : j <= i

\* C12: when a full path names the same parameter in several segments, the
\* entry of its key in the register file has one property for that name, and
\* the property is optional exactly when the last segment that names it
\* carries the optional marker: "/a/:id?/b/:id" gives a required id,
\* "/a/:id/b/:id?" an optional one.
C12_LastOccurrenceWins ==
    pass.pc = "virtual"
        => LET map == files[registerPath].Params
           IN  \A k \in 1..Len(map) :
                 /\ \A q \in 1..Len(map[k].props) :
                       LET name == map[k].props[q].name
                           segs == Split(map[k].key)
                       IN  /\ Occurrences(map[k].key, name) # {}
                           /\ \A r \in 1..Len(map[k].props) :
                                 map[k].props[r].name = name => r = q
                           /\ map[k].props[q].optional
                                 <=> LET seg ==
                                           segs[LastOccurrence(map[k].key,
                                                               name)]
                                     IN  seg[Len(seg)] = "?"
                 /\ map[k].key =
                       <<"/", "a", "/", ":", "id", "?", "/", "b", "/", ":",
                         "id">>
                       => map[k].props =
                             <<[name |-> <<"id">>, optional |-> FALSE]>>
                 /\ map[k].key =
                       <<"/", "a", "/", ":", "id", "/", "b", "/", ":", "id",
                         "?">>
                       => map[k].props =
                             <<[name |-> <<"id">>, optional |-> TRUE]>>

\* a register file has been written whose key names id first as optional and
\* last as required
C12_Witness ==
    /\ pass.pc = "virtual"
    /\ \E k \in 1..Len(files[registerPath].Params) :
          LET entry == files[registerPath].Params[k]
          IN  /\ Cardinality(Occurrences(entry.key, <<"id">>)) = 2
              /\ Split(entry.key)[3] = <<":", "id", "?">>
              /\ Len(entry.props) = 1

\* the events whose handler has to regenerate
Regenerating == {ev \in 1..Len(events) : events[ev].regenerate}

\* C13: in watch mode the number of writeAll passes started is 1, the initial
\* pass, plus the number of delivered events with an ok result and
\* configChanged or routeConfigChanged true; every such event starts exactly
\* one pass of its own, also while an earlier handler has not finished, and
\* no other event starts one.
C13_OnePassPerChange ==
    /\ []((mode = "watch" /\ phase = "watching")
             => passes = 1 + Cardinality(Regenerating))
    /\ [][last'.op = "onChange"
            => IF last'.result.ok
                  /\ (last'.configChanged \/ last'.routeConfigChanged)
               THEN /\ passes' = passes + 1
                    /\ pass'.pc = "rm"
                    /\ pass'.n = passes'
                    /\ pass'.ev = last'.ev
               ELSE passes' = passes /\ pass' = pass]_vars

\* two events in a row have each started a pass, the second while the handler
\* of the first was still suspended
C13_Witness ==
    /\ mode = "watch"
    /\ passes = 3
    /\ Regenerating = {1, 2}
    /\ microtasks = <<1, 2>>

OkEvents == {ev \in 1..Len(events) : events[ev].result.ok}

\* the value of the most recent successful load: of the last ok event, or of
\* the initial load when there is none
LatestValue ==
    IF OkEvents = {} THEN initial.value
    ELSE events[CHOOSE ev \in OkEvents : \A o \in OkEvents : o <= ev]
            .result.value

\* C14: once the initial load has succeeded ctx.config is the value of the
\* most recent ok load (the last ok event, or the initial load), also when
\* that event had both flags false; it changes in no other step, and a change
\* replaces it by the whole carried value.
C14_ConfigIsLatestValue ==
    /\ [](phase \in {"context", "writing", "written", "writeFailed", "done",
                     "watching"}
             => config = LatestValue)
    /\ [][config' # config
            => \/ last'.op = "createContext" /\ config' = initial.value
               \/ /\ last'.op = "onChange"
                  /\ last'.result.ok
                  /\ config' = last'.result.value]_vars

\* an ok event with both flags false has replaced the snapshot by a
\* different value
C14_Witness ==
    /\ last.op = "onChange"
    /\ last.result.ok
    /\ ~last.configChanged
    /\ ~last.routeConfigChanged
    /\ config = last.result.value
    /\ config # initial.value
    /\ Len(events) = 1

Rejected == {rejected[j] : j \in 1..Len(rejected)}

\* C15: a filesystem error at any step of writeAll is caught nowhere.  The
\* pass ends at the failing call: a failing rmSync leaves what it had not yet
\* removed, a failing write leaves the files the pass had written so far, an
\* incomplete output; nothing is restored or written afterwards.  No success
\* message is logged for the pass, run/watch or the handler's promise reject,
\* and in the handler ctx.config stays the value the event carried.
C15_FsErrorAbortsPass ==
    /\ [][fsErrors' # fsErrors
            => /\ pass' = Idle
               /\ passes' = passes
               /\ config' = config
               /\ log' = log
               /\ microtasks' = microtasks
               /\ lastOutput' = lastOutput
               /\ DOMAIN files' \subseteq DOMAIN files
               /\ \A p \in DOMAIN files' :
                     files'[p] = files[p] /\ writtenBy'[p] = writtenBy[p]
               /\ pass.pc # "rm"
                     => /\ files' = files
                        /\ virtualPath \notin DOMAIN files'
                        /\ \A p \in DOMAIN files' : writtenBy'[p] = pass.n
               /\ IF pass.owner = "main"
                  THEN phase' = "writeFailed" /\ rejected' = rejected
                  ELSE /\ rejected' = Append(rejected, pass.ev)
                       /\ phase' = phase
                       /\ config' = events[pass.ev].result.value]_vars
    /\ [](/\ \A ev \in Rejected : Regenerated(ev) = {}
          /\ phase = "writeFailed"
                => /\ log = <<>>
                   /\ ~subscribed
                   /\ pass = Idle
                   /\ ~lastOutput.valid)

\* the pass of an event that carried a new snapshot threw at the write of the
\* register file: the route files are on disk, the register file is not, and
\* ctx.config is the new snapshot
C15_Witness ==
    /\ last.op = "writeRegister"
    /\ rejected = <<1>>
    /\ config = events[1].result.value
    /\ config # initial.value
    /\ files # NoFiles
    /\ registerPath \notin DOMAIN files
    /\ Regenerated(1) = {}

\* C16: close aborts nothing.  It is taken only when no writeAll pass is on
\* the stack and changes neither the pass, the disk, the snapshot nor the
\* handlers suspended at their await: a suspended handler leaves the queue
\* only by resuming and logging.  A pass on the stack is followed by nothing
\* but its own filesystem calls, and while no filesystem call has failed the
\* directory holds, after close and outside a pass, the complete output of the
\* last pass.
C16_CloseAbortsNothing ==
    /\ [][(configLoader = "open" /\ configLoader' = "closed")
            => /\ pass = Idle
               /\ pass' = pass
               /\ passes' = passes
               /\ dir' = dir
               /\ files' = files
               /\ writtenBy' = writtenBy
               /\ config' = config
               /\ microtasks' = microtasks
               /\ log' = log
               /\ rejected' = rejected
               /\ lastOutput' = lastOutput]_vars
    /\ [][Running
            => /\ last'.op \in {"rmSync", "writeRoute", "writeRegister",
                                "writeVirtual", "writeAll returned"}
               /\ configLoader' = configLoader]_vars
    /\ [][microtasks' # microtasks
            => \/ /\ last'.op = "resume"
                  /\ microtasks' = Tail(microtasks)
                  /\ log' = Append(log, Info("regenerated types",
                                             Head(microtasks)))
               \/ /\ last'.op = "writeAll returned"
                  /\ microtasks' = Append(microtasks, pass.ev)]_vars
    /\ []((configLoader = "closed" /\ ~Running /\ fsErrors = 0)
             => /\ lastOutput.valid
                /\ dir = lastOutput.dir
                /\ files = lastOutput.files
                /\ files = OutputSet(lastOutput.cfg))

\* close was called while a handler was suspended at `await writeAll`; the
\* handler has resumed since and logged, and the output of its pass is whole
C16_Witness ==
    /\ last.op = "resume"
    /\ configLoader = "closed"
    /\ Regenerated(1) # {}
    /\ passes = 2
    /\ fsErrors = 0
    /\ files = OutputSet(events[1].result.value)

\* C17: watch starts in a fixed order: the initial snapshot is loaded, the
\* initial writeAll pass runs to its return, "generated types" is logged, and
\* only then the handler is subscribed and the Watcher returned.  The handler
\* is subscribed exactly when the Watcher has been returned; no event is
\* handled and no second pass starts before the initial output is complete
\* and logged.
C17_WatchStartupOrder ==
    /\ [][last'.op = "initialWriteAll"
            => /\ initial.ok
               /\ config = initial.value
               /\ passes = 0
               /\ ~subscribed'
               /\ log' = <<>>]_vars
    /\ [][last'.op = "watch returned"
            => /\ ~subscribed
               /\ log = <<>>
               /\ events = <<>>
               /\ passes = 1
               /\ pass = Idle
               /\ lastOutput.valid
               /\ lastOutput.cfg = initial.value
               /\ files = OutputSet(initial.value)
               /\ log' = <<Info("generated types", 0)>>
               /\ subscribed'
               /\ phase' = "watching"]_vars
    /\ [](/\ subscribed <=> (mode = "watch" /\ phase = "watching")
          /\ subscribed => log # <<>> /\ log[1] = Info("generated types", 0)
          /\ (events # <<>> \/ passes > 1 \/ microtasks # <<>>) => subscribed
          /\ (mode = "watch" /\ log # <<>>)
                => log[1] = Info("generated types", 0) /\ lastOutput.valid)

\* the Watcher has just been returned: the initial output is on disk, the
\* message is logged and the handler is subscribed
C17_Witness ==
    /\ last.op = "watch returned"
    /\ subscribed
    /\ log = <<Info("generated types", 0)>>
    /\ files = OutputSet(config)
    /\ Len(config.routes) > 1

\* the snapshot the n-th pass generates from: the initial one for the first
\* pass, the value of the (n-1)-th regenerating event for a later pass
PassConfig(n) ==
    IF n = 1 THEN initial.value
    ELSE events[CHOOSE ev \in Regenerating :
                    Cardinality({e \in Regenerating : e <= ev}) = n - 1]
            .result.value

RoutePaths(cfg) == {getTypesPath(cfg.routes[i]) : i \in 1..Len(cfg.routes)}

WrittenBy(n) == {p \in DOMAIN files : writtenBy[p] = n}

\* the order of the steps of the pass on the stack: the directory is deleted
\* before the first write, the route files are written in the order of the
\* route collection, then the register file, and the virtual file is last
PassOrder ==
    /\ Running => config = PassConfig(pass.n)
    /\ pass.pc = "rm" => WrittenBy(pass.n) = {}
    /\ pass.pc \in {"route", "register", "virtual"}
          => DOMAIN files = WrittenBy(pass.n)
    /\ pass.pc = "route"
          => /\ pass.i \in 1..Len(config.routes)
             /\ DOMAIN files =
                   {getTypesPath(config.routes[i]) : i \in 1..(pass.i - 1)}
    /\ pass.pc = "register" => DOMAIN files = RoutePaths(config)
    /\ pass.pc = "virtual"
          => DOMAIN files = RoutePaths(config) \cup {registerPath}

\* C18 as stated: the steps of a pass run in the fixed order, so in any state
\* where the register file of a pass exists, all route files of that pass's
\* snapshot exist too.
C18_Original ==
    /\ PassOrder
    /\ \A n \in 1..passes :
          registerPath \in WrittenBy(n)
             => RoutePaths(PassConfig(n)) \subseteq DOMAIN files

\* C18: a pass deletes the whole directory before its first write, writes
\* the route files in the order of the route collection, then the register
\* file, then the virtual file; so while the register file of the most
\* recently started pass exists, all route files of that pass's snapshot exist
\* and are that pass's.
C18_StepOrder ==
    /\ PassOrder
    /\ (passes > 0 /\ registerPath \in WrittenBy(passes))
          => RoutePaths(PassConfig(passes)) \subseteq WrittenBy(passes)

\* the second pass is about to write its virtual file: the directory holds
\* its route files and its register file and nothing of the first pass
C18_Witness ==
    /\ pass.pc = "virtual"
    /\ pass.n = 2
    /\ config # initial.value
    /\ Len(config.routes) > 2
    /\ DOMAIN files = RoutePaths(config) \cup {registerPath}

\* no pass is on the stack, no handler is suspended, nothing has failed
Quiet ==
    /\ phase \in {"done", "watching"}
    /\ ~Running
    /\ microtasks = <<>>
    /\ fsErrors = 0

RouteFullpath(cfg, i) == fullpath(lineage(cfg.routes, cfg.routes[i]))

\* the first route, in the order of the route collection, that register takes
\* the full path `key` from
FirstDiscovery(cfg, key) ==
    CHOOSE i \in IncludedRoutes(cfg) :
        /\ RouteFullpath(cfg, i) = key
        /\ \A j \in IncludedRoutes(cfg) : RouteFullpath(cfg, j) = key => i <= j

\* C20: the entries of the param map of a register file stand in the order in
\* which their full paths are first met while walking the route collection: a
\* full path met again keeps the place of its first discovery.  A register
\* file written again from the same snapshot has the same entries in the same
\* order.
C20_FirstDiscoveryOrder ==
    pass.pc = "virtual"
        => LET map == files[registerPath].Params
           IN  /\ \A a, b \in 1..Len(map) :
                     a < b => FirstDiscovery(config, map[a].key)
                                 < FirstDiscovery(config, map[b].key)
               /\ \A a \in 1..Len(map) :
                     map[a].key \in IncludedPaths(config)
               /\ (lastOutput.valid /\ lastOutput.cfg = config)
                     => map = lastOutput.files[registerPath].Params

\* a register file has been written for three routes of which the first and
\* the third have the same full path and the second another one
C20_Witness ==
    /\ pass.pc = "virtual"
    /\ Len(config.routes) = 3
    /\ IncludedRoutes(config) = {1, 2, 3}
    /\ RouteFullpath(config, 1) = RouteFullpath(config, 3)
    /\ RouteFullpath(config, 1) # RouteFullpath(config, 2)
    /\ Len(files[registerPath].Params) = 2
    /\ files[registerPath].Params[1].key = RouteFullpath(config, 1)

====
